---- MODULE Spec2Model ----
(***************************************************************************)
(* Model of the portfolio repository's three pieces of logic:              *)
(*   - CertificatesSlider (React component): carousel index, touch and     *)
(*     mouse gestures, card click, coverflow position math;                *)
(*   - ProjectFilter (React component): search text and tag filter;        *)
(*   - scripts/generate-og.mjs: the build-time OG image pipeline.          *)
(* Each piece has its own specification (Spec, FilterSpec, PipelineSpec);  *)
(* the variables of the other pieces stay at their initial values.         *)
(*                                                                         *)
(* JavaScript values: a string is a sequence of one-character strings      *)
(* (<<>> is ""), and a nullable value is a sequence of length 0 (null) or  *)
(* 1 (<<v>>).                                                              *)
(***************************************************************************)
EXTENDS Integers, Sequences, FiniteSets, TLC

VARIABLES
    \* CertificatesSlider
    certificates,   \* the certificates prop (ids; only its length matters)
    activeIndex,    \* useState(0)
    touchStart,     \* useState<number | null>(null)
    touchEnd,       \* useState<number | null>(null)
    isDragging,     \* useState(false)
    dragStartX,     \* useState<number | null>(null)
    pressCard,      \* browser: card under the pointer at the last mousedown
    pendingClick,   \* browser: click event due on a card after mouseup
    lastEvent,      \* history: the last event handled
    \* ProjectFilter
    projects,       \* the projects prop
    search,         \* useState('')
    selectedTag,    \* useState<string | null>(null)
    clicked,        \* history: the button of the last click, <<>> if none
    \* generate-og.mjs
    srcDir,         \* src/og: <<>> when missing, else <<entries>>
    outDir,         \* names of the files in public/images/og
    pc,             \* position in main()
    inputs,         \* const inputs
    results,        \* const results
    cursor,         \* position of the for..of loop in inputs
    exitCode,       \* process exit status, <<>> while running
    failed          \* history: position in inputs of the buildOne that rejected

sliderVars == <<certificates, activeIndex, touchStart, touchEnd, isDragging,
                dragStartX, pressCard, pendingClick, lastEvent>>
filterVars == <<projects, search, selectedTag, clicked>>
pipelineVars == <<srcDir, outDir, pc, inputs, results, cursor, exitCode,
                  failed>>
vars == <<sliderVars, filterVars, pipelineVars>>

----------------------------------------------------------------------------
(* JavaScript helpers *)

null == <<>>

\* JS remainder a % n for n > 0: the result has the sign of the dividend.
JsRem(a, n) == IF a >= 0 THEN a % n ELSE -((-a) % n)

Abs(x) == IF x < 0 THEN -x ELSE x

\* !x for x : number | null  (null and 0 are falsy)
FalsyNumber(x) == x = null \/ x[1] = 0

----------------------------------------------------------------------------
(* Bounds *)

MaxCertificates == 6
MaxStep == 1

----------------------------------------------------------------------------
(* CertificatesSlider *)

minSwipeDistance == 50

\* clientX values: the left edge 0, 1, and points just beyond the threshold,
\* so that displacements of 0, +-1, +-50 and +-51 (below, at and above the
\* threshold of 50) occur, with and without the coordinate 0.
Coords == {0, 1} \cup {minSwipeDistance + k : k \in 1..MaxStep}

total == Len(certificates)
Cards == 0..(total - 1)

\* Mutant of nextSlide: no wrap-around.
nextSlideNoWrap(prev) == prev + 1
nextSlide(prev) == JsRem(prev + 1, total)

\* Mutants of prevSlide: without "+ certificates.length"; clamped at 0.
prevSlideNoAdd(prev) == JsRem(prev - 1, total)
prevSlideClamped(prev) == IF prev = 0 THEN 0 ELSE prev - 1
prevSlide(prev) == JsRem(prev - 1 + total, total)

\* Mutant of isLeftSwipe: the threshold itself counts as a swipe.
isLeftSwipeInclusive(distance) == distance >= minSwipeDistance
isLeftSwipe(distance) == distance > minSwipeDistance
isRightSwipe(distance) == distance < -minSwipeDistance

\* getCardStyle: diff after the two shortest-path adjustments.
\* diff > total / 2 is a comparison with a float: 2 * diff > total.
\* Mutant of normDiff: the direct difference, no adjustment.
normDiffNoWrap(index, active) == index - active
normDiff(index, active) ==
    LET d0 == index - active
        d1 == IF 2 * d0 > total THEN d0 - total ELSE d0
        d2 == IF 2 * d1 < -total THEN d1 + total ELSE d1
    IN d2

isVisible(index) == Abs(normDiff(index, activeIndex)) <= 2

\* Mutant of getCardStyle: zIndex from the signed diff.
getCardStyleSignedZ(index) ==
    LET diff == normDiff(index, activeIndex)
    IN [xOffset |-> diff * 120,
        zOffset |-> -Abs(diff) * 100,
        rotateY |-> IF diff > 0 THEN -45 ELSE IF diff < 0 THEN 45 ELSE 0,
        zIndex |-> 100 - diff,
        scale10 |-> IF diff = 0 THEN 10 ELSE 8,
        opacity10 |-> IF ~isVisible(index) \/ 10 - Abs(diff) * 3 < 0
                      THEN 0 ELSE 10 - Abs(diff) * 3,
        display |-> IF isVisible(index) THEN "block" ELSE "none"]

\* getCardStyle: the style values of one card. scale and opacity are in
\* tenths (1.0 is 10, 0.8 is 8, 1 - |diff| * 0.3 is 10 - |diff| * 3).
getCardStyle(index) ==
    LET diff == normDiff(index, activeIndex)
        isActive == diff = 0
        opacity == IF 10 - Abs(diff) * 3 > 0 THEN 10 - Abs(diff) * 3 ELSE 0
    IN [xOffset |-> diff * 120,
        zOffset |-> -Abs(diff) * 100,
        rotateY |-> IF diff > 0 THEN -45 ELSE IF diff < 0 THEN 45 ELSE 0,
        zIndex |-> 100 - Abs(diff),
        scale10 |-> IF isActive THEN 10 ELSE 8,
        opacity10 |-> IF isVisible(index) THEN opacity ELSE 0,
        display |-> IF isVisible(index) THEN "block" ELSE "none"]

\* History of the last event handled: its type, activeIndex before it, the
\* displacement dragStartX - clientX a mouseup handler acted on (kept by the
\* click that follows it), the card clicked, and for a next/prev button the
\* type and starting index of a next/prev button event right before it.
Event(type, before, dist, card) ==
    [type |-> type, before |-> before, dist |-> dist, card |-> card,
     prior |-> <<>>]

ButtonEvent(type) ==
    [type |-> type, before |-> activeIndex, dist |-> <<>>, card |-> <<>>,
     prior |-> IF lastEvent.type \in {"next", "prev"}
               THEN <<lastEvent.type, lastEvent.before>>
               ELSE <<>>]

SliderInit ==
    /\ certificates \in {[i \in 1..n |-> i] : n \in 1..MaxCertificates}
    /\ activeIndex = 0
    /\ touchStart = null
    /\ touchEnd = null
    /\ isDragging = FALSE
    /\ dragStartX = null
    /\ pressCard = null
    /\ pendingClick = null
    /\ lastEvent = Event("init", 0, null, null)

Idle == pendingClick = null

nextButton ==
    /\ Idle
    /\ activeIndex' = nextSlide(activeIndex)
    /\ lastEvent' = ButtonEvent("next")
    /\ UNCHANGED <<certificates, touchStart, touchEnd, isDragging, dragStartX,
                   pressCard, pendingClick>>
    /\ UNCHANGED <<filterVars, pipelineVars>>

prevButton ==
    /\ Idle
    /\ activeIndex' = prevSlide(activeIndex)
    /\ lastEvent' = ButtonEvent("prev")
    /\ UNCHANGED <<certificates, touchStart, touchEnd, isDragging, dragStartX,
                   pressCard, pendingClick>>
    /\ UNCHANGED <<filterVars, pipelineVars>>

onTouchStart ==
    /\ Idle
    /\ \E x \in Coords :
        /\ touchEnd' = null
        /\ touchStart' = <<x>>
    /\ lastEvent' = Event("touchStart", activeIndex, null, null)
    /\ UNCHANGED <<certificates, activeIndex, isDragging, dragStartX,
                   pressCard, pendingClick>>
    /\ UNCHANGED <<filterVars, pipelineVars>>

onTouchMove ==
    /\ Idle
    /\ \E x \in Coords : touchEnd' = <<x>>
    /\ lastEvent' = Event("touchMove", activeIndex, null, null)
    /\ UNCHANGED <<certificates, activeIndex, touchStart, isDragging,
                   dragStartX, pressCard, pendingClick>>
    /\ UNCHANGED <<filterVars, pipelineVars>>

onTouchEnd ==
    /\ Idle
    /\ IF FalsyNumber(touchStart) \/ FalsyNumber(touchEnd)
       THEN activeIndex' = activeIndex
       ELSE LET distance == touchStart[1] - touchEnd[1] IN
            IF isLeftSwipe(distance) THEN activeIndex' = nextSlide(activeIndex)
            ELSE IF isRightSwipe(distance) THEN activeIndex' = prevSlide(activeIndex)
            ELSE activeIndex' = activeIndex
    /\ lastEvent' = Event("touchEnd", activeIndex, null, null)
    /\ UNCHANGED <<certificates, touchStart, touchEnd, isDragging, dragStartX,
                   pressCard, pendingClick>>
    /\ UNCHANGED <<filterVars, pipelineVars>>

\* The pointer is over a visible card or over the container's background.
Targets == {null} \cup {<<c>> : c \in {i \in Cards : isVisible(i)}}

onMouseDown ==
    /\ Idle
    /\ \E x \in Coords, t \in Targets :
        /\ isDragging' = TRUE
        /\ dragStartX' = <<x>>
        /\ pressCard' = t
    /\ lastEvent' = Event("mouseDown", activeIndex, null, null)
    /\ UNCHANGED <<certificates, activeIndex, touchStart, touchEnd, pendingClick>>
    /\ UNCHANGED <<filterVars, pipelineVars>>

\* The handler, then the browser: a mouseup on the element that took the
\* mousedown is followed by a click on it.
onMouseUp ==
    /\ Idle
    /\ \E x \in Coords, t \in {null, pressCard} :
        /\ IF ~isDragging \/ dragStartX = null
           THEN /\ UNCHANGED <<activeIndex, isDragging, dragStartX>>
                /\ lastEvent' = Event("mouseUp", activeIndex, null, null)
           ELSE LET dragEndX == x
                    distance == dragStartX[1] - dragEndX
                IN /\ IF distance > minSwipeDistance
                         THEN activeIndex' = nextSlide(activeIndex)
                      ELSE IF distance < -minSwipeDistance
                         THEN activeIndex' = prevSlide(activeIndex)
                      ELSE activeIndex' = activeIndex
                   /\ isDragging' = FALSE
                   /\ dragStartX' = null
                   /\ lastEvent' = Event("mouseUp", activeIndex, <<distance>>, null)
        /\ pendingClick' = IF t # null /\ t = pressCard THEN t ELSE null
        /\ pressCard' = null
    /\ UNCHANGED <<certificates, touchStart, touchEnd>>
    /\ UNCHANGED <<filterVars, pipelineVars>>

\* Mutant of onMouseLeave: the drag state is left as it is.
onMouseLeaveKeepsDrag ==
    /\ Idle
    /\ lastEvent' = Event("mouseLeave", activeIndex, null, null)
    /\ UNCHANGED <<certificates, activeIndex, touchStart, touchEnd, isDragging,
                   dragStartX, pressCard, pendingClick>>
    /\ UNCHANGED <<filterVars, pipelineVars>>

onMouseLeave ==
    /\ Idle
    /\ isDragging' = FALSE
    /\ dragStartX' = null
    /\ lastEvent' = Event("mouseLeave", activeIndex, null, null)
    /\ UNCHANGED <<certificates, activeIndex, touchStart, touchEnd, pressCard,
                   pendingClick>>
    /\ UNCHANGED <<filterVars, pipelineVars>>

\* Card onClick, dispatched after the mouseup's state updates were rendered.
onClick ==
    /\ pendingClick # null
    /\ LET index == pendingClick[1] IN
        /\ IF ~isDragging
           THEN activeIndex' = index
           ELSE activeIndex' = activeIndex
        /\ lastEvent' = Event("click", activeIndex, lastEvent.dist, <<index>>)
    /\ pendingClick' = null
    /\ UNCHANGED <<certificates, touchStart, touchEnd, isDragging, dragStartX,
                   pressCard>>
    /\ UNCHANGED <<filterVars, pipelineVars>>

SliderNext ==
    \/ nextButton
    \/ prevButton
    \/ onTouchStart
    \/ onTouchMove
    \/ onTouchEnd
    \/ onMouseDown
    \/ onMouseUp
    \/ onMouseLeave
    \/ onClick

----------------------------------------------------------------------------
(* CertificatesSlider: properties *)

\* C1: activeIndex is always a valid index into the certificate list,
\* 0 <= activeIndex < N, after any sequence of carousel operations.
C1_ActiveIndexValid == activeIndex \in Cards

\* C1 case: a card click set the index to the last card of a list of 3 or more.
C1_Witness ==
    /\ lastEvent.type = "click"
    /\ total >= 3
    /\ lastEvent.card = <<activeIndex>>
    /\ activeIndex = total - 1

\* C2: next sets activeIndex to (a + 1) mod N and prev sets it to
\* (a - 1 + N) mod N, for every N and every a in [0, N); next from N - 1 gives
\* 0 and prev from 0 gives N - 1.
C2_NextPrevModular ==
    /\ \A a \in Cards :
        /\ nextSlide(a) = (a + 1) % total
        /\ prevSlide(a) = (a - 1 + total) % total
    /\ lastEvent.type = "next" =>
        /\ activeIndex = (lastEvent.before + 1) % total
        /\ lastEvent.before = total - 1 => activeIndex = 0
    /\ lastEvent.type = "prev" =>
        /\ activeIndex = (lastEvent.before - 1 + total) % total
        /\ lastEvent.before = 0 => activeIndex = total - 1

\* C2 case: 5 certificates, activeIndex 4, next gives 0.
C2_Witness ==
    /\ lastEvent.type = "next"
    /\ total = 5
    /\ lastEvent.before = 4
    /\ activeIndex = 0

\* C3: a card click that follows the release of a drag (displacement beyond
\* the threshold) does not jump: activeIndex stays what the release made it.
C3_ClickAfterDragIgnored ==
    (/\ lastEvent.type = "click"
     /\ lastEvent.dist # null
     /\ Abs(lastEvent.dist[1]) > minSwipeDistance)
    => activeIndex = lastEvent.before

\* C4: on release of a touch or mouse gesture with start and end coordinates
\* >= 0 (0 included), start - end > 50 applies exactly one next and
\* start - end < -50 exactly one prev.
C4_SwipeBeyondThreshold ==
    /\ (lastEvent.type = "touchEnd" /\ touchStart # null /\ touchEnd # null) =>
        LET distance == touchStart[1] - touchEnd[1] IN
        /\ distance > minSwipeDistance =>
            activeIndex = (lastEvent.before + 1) % total
        /\ distance < -minSwipeDistance =>
            activeIndex = (lastEvent.before - 1 + total) % total
    /\ (lastEvent.type = "mouseUp" /\ lastEvent.dist # null) =>
        LET distance == lastEvent.dist[1] IN
        /\ distance > minSwipeDistance =>
            activeIndex = (lastEvent.before + 1) % total
        /\ distance < -minSwipeDistance =>
            activeIndex = (lastEvent.before - 1 + total) % total

\* C5: releasing a touch or mouse gesture whose displacement is at most 50 in
\* absolute value (exactly 50 included, a touch with no move event included)
\* leaves activeIndex unchanged.
C5_SubThresholdNoOp ==
    /\ (/\ lastEvent.type = "touchEnd"
        /\ touchStart # null
        /\ \/ touchEnd = null
           \/ Abs(touchStart[1] - touchEnd[1]) <= minSwipeDistance)
       => activeIndex = lastEvent.before
    /\ (/\ lastEvent.type = "mouseUp"
        /\ lastEvent.dist # null
        /\ Abs(lastEvent.dist[1]) <= minSwipeDistance)
       => activeIndex = lastEvent.before

\* C5 case: a touch released at a displacement of exactly 50, more than one card.
C5_Witness ==
    /\ lastEvent.type = "touchEnd"
    /\ total >= 2
    /\ touchStart # null
    /\ touchEnd # null
    /\ touchStart[1] - touchEnd[1] = minSwipeDistance
    /\ activeIndex = lastEvent.before

\* C6: the normalized diff of getCardStyle is congruent to i - a modulo N, is
\* 0 exactly for the active card, and has absolute value at most floor(N/2).
C6_ShortestCircularDistance ==
    \A i \in Cards :
        LET diff == normDiff(i, activeIndex) IN
        /\ (diff - (i - activeIndex)) % total = 0
        /\ (diff = 0) <=> (i = activeIndex)
        /\ Abs(diff) <= total \div 2

\* C6 case: 5 cards, active 4, card 0 is one step to the right (diff 1, not -4).
C6_Witness ==
    /\ total = 5
    /\ activeIndex = 4
    /\ normDiff(0, activeIndex) = 1

\* C7: next then prev, or prev then next, returns activeIndex to where it was.
C7_RoundTrip ==
    /\ (/\ lastEvent.type = "prev"
        /\ lastEvent.prior # null
        /\ lastEvent.prior[1] = "next") => activeIndex = lastEvent.prior[2]
    /\ (/\ lastEvent.type = "next"
        /\ lastEvent.prior # null
        /\ lastEvent.prior[1] = "prev") => activeIndex = lastEvent.prior[2]

\* C7 case: next from the last card wrapped to 0, then prev came back to it.
C7_Witness ==
    /\ lastEvent.type = "prev"
    /\ total >= 2
    /\ lastEvent.prior = <<"next", total - 1>>
    /\ activeIndex = total - 1

\* The number of steps between two cards on the circle of N cards.
CircularDistance(i, a) ==
    LET forward == (i - a) % total
    IN IF forward <= total - forward THEN forward ELSE total - forward

\* C14: the active card is the only card with horizontal offset 0 and
\* rotation 0, is visible, and has stacking order 100, above every other
\* card; stacking order is 100 - |diff| and decreases as |diff| grows; a card
\* is visible exactly when |diff| <= 2.
C14_CoverflowLayout ==
    /\ \A i \in Cards :
        LET style == getCardStyle(i) IN
        /\ (style.xOffset = 0) <=> (i = activeIndex)
        /\ (style.rotateY = 0) <=> (i = activeIndex)
        /\ i = activeIndex => (style.display = "block" /\ style.zIndex = 100)
        /\ i # activeIndex => style.zIndex < 100
        /\ style.zIndex = 100 - CircularDistance(i, activeIndex)
        /\ (style.display = "block") <=> (CircularDistance(i, activeIndex) <= 2)
    /\ \A i, j \in Cards :
        CircularDistance(i, activeIndex) < CircularDistance(j, activeIndex)
            => getCardStyle(i).zIndex > getCardStyle(j).zIndex

\* C14 case: 6 cards, active 1: card 4 (three steps away) is hidden, card 5
\* (two steps to the left, across the wrap) is shown below card 0.
C14_Witness ==
    /\ total = 6
    /\ activeIndex = 1
    /\ getCardStyle(4).display = "none"
    /\ getCardStyle(5).display = "block"
    /\ getCardStyle(5).zIndex < getCardStyle(0).zIndex

\* C15: after a mouseleave the drag state is cleared; a mouseup while no drag
\* is in progress (none started, or the last one cancelled or released)
\* leaves activeIndex unchanged; and only a mousedown starts a drag.
C15_MouseLeaveCancelsDrag ==
    /\ [](lastEvent.type = "mouseLeave" => (~isDragging /\ dragStartX = null))
    /\ [][/\ (~isDragging /\ lastEvent'.type = "mouseUp")
              => activeIndex' = activeIndex
          /\ (~isDragging /\ isDragging') => lastEvent'.type = "mouseDown"]_vars

\* C15 case: a mousedown on a card, a mouseleave, then a mouseup on the same
\* card: the handler saw no drag (the click on the card is still due).
C15_Witness ==
    /\ lastEvent.type = "mouseUp"
    /\ lastEvent.dist = null
    /\ pendingClick # null
    /\ total >= 2
    /\ activeIndex = lastEvent.before

----------------------------------------------------------------------------
(* Bounds of the ProjectFilter inputs *)

MaxProjects == 2
MaxTitleLen == 2
MaxDescriptionLen == 1
MaxSearchLen == 1

----------------------------------------------------------------------------
(* Strings *)

\* All sequences over S of length at most n.
RECURSIVE SeqsUpTo(_, _)
SeqsUpTo(S, n) ==
    IF n = 0 THEN {<<>>}
    ELSE LET shorter == SeqsUpTo(S, n - 1)
         IN shorter \cup {Append(s, c) : s \in {t \in shorter : Len(t) = n - 1}, c \in S}

Range(s) == {s[i] : i \in 1..Len(s)}

\* UTF-16 code units of the characters used.
Code(c) ==
    CASE c = "." -> 46
      [] c = "A" -> 65
      [] c = "a" -> 97
      [] c = "b" -> 98
      [] c = "e" -> 101
      [] c = "g" -> 103
      [] c = "p" -> 112
      [] c = "w" -> 119

\* String.prototype.toLowerCase
LowerChar(c) == IF c = "A" THEN "a" ELSE c
\* Mutant of toLowerCase: case kept.
toLowerCaseIdentity(s) == s
toLowerCase(s) == [i \in 1..Len(s) |-> LowerChar(s[i])]

\* String.prototype.includes
includes(s, q) ==
    \E k \in 0..(Len(s) - Len(q)) : SubSeq(s, k + 1, k + Len(q)) = q

\* a < b on strings: comparison by code units, a proper prefix is smaller.
StrLess(a, b) ==
    \E k \in 1..(Len(b)) :
        /\ k <= Len(a) + 1
        /\ \A j \in 1..(k - 1) : a[j] = b[j]
        /\ (k = Len(a) + 1 \/ Code(a[k]) < Code(b[k]))

----------------------------------------------------------------------------
(* ProjectFilter *)

TextChars == {"A", "a", "b"}
TagNames == {<<>>, <<"g">>}
TagLists == {<<>>, << <<>> >>, << <<"g">> >>, << <<"g">>, <<>> >>}

Project ==
    [title : SeqsUpTo(TextChars, MaxTitleLen),
     description : SeqsUpTo(TextChars, MaxDescriptionLen),
     tags : TagLists]

\* !!x for x : string | null  (null and "" are falsy)
TruthyString(x) == x # null /\ x[1] # <<>>

matchesSearch(project) ==
    \/ includes(toLowerCase(project.title), toLowerCase(search))
    \/ includes(toLowerCase(project.description), toLowerCase(search))

matchesTag(project) ==
    IF TruthyString(selectedTag)
    THEN selectedTag[1] \in Range(project.tags)
    ELSE TRUE

filteredProjects ==
    LET keep(project) == matchesSearch(project) /\ matchesTag(project)
    IN SelectSeq(projects, keep)

\* new Set of every project's tags, Array.from(...).sort()
RECURSIVE SortStrings(_)
SortStrings(S) ==
    IF S = {} THEN <<>>
    ELSE LET m == CHOOSE x \in S : \A y \in S : x = y \/ StrLess(x, y)
         IN <<m>> \o SortStrings(S \ {m})

\* The tags in the order a Set keeps them: first occurrence, no duplicates.
RECURSIVE TagsInOrder(_)
TagsInOrder(ps) ==
    IF ps = <<>> THEN <<>>
    ELSE TagsInOrder(SubSeq(ps, 1, Len(ps) - 1)) \o ps[Len(ps)].tags

RECURSIVE SetOrder(_)
SetOrder(seq) ==
    IF seq = <<>> THEN <<>>
    ELSE LET front == SetOrder(SubSeq(seq, 1, Len(seq) - 1))
             x == seq[Len(seq)]
         IN IF x \in Range(front) THEN front ELSE Append(front, x)

\* Mutant of allTags: Array.from(tags) without .sort().
allTagsUnsorted == SetOrder(TagsInOrder(projects))
allTags == SortStrings(UNION {Range(p.tags) : p \in Range(projects)})

FilterInit ==
    /\ projects \in SeqsUpTo(Project, MaxProjects)
    /\ search = <<>>
    /\ selectedTag = null
    /\ clicked = null

\* onChange of the search input
setSearch ==
    /\ \E value \in SeqsUpTo(TextChars, MaxSearchLen) : search' = value
    /\ clicked' = null
    /\ UNCHANGED <<projects, selectedTag>>
    /\ UNCHANGED <<sliderVars, pipelineVars>>

\* onClick of the "All" button
clickAll ==
    /\ selectedTag' = null
    /\ clicked' = <<"all">>
    /\ UNCHANGED <<projects, search>>
    /\ UNCHANGED <<sliderVars, pipelineVars>>

\* Mutant of clickTag: the clicked tag is selected, never cleared.
clickTagNoToggle ==
    /\ \E tag \in Range(allTags) :
        /\ selectedTag' = <<tag>>
        /\ clicked' = <<"tag", tag>>
    /\ UNCHANGED <<projects, search>>
    /\ UNCHANGED <<sliderVars, pipelineVars>>

\* onClick of a tag button
clickTag ==
    /\ \E tag \in Range(allTags) :
        /\ selectedTag' = IF <<tag>> = selectedTag THEN null ELSE <<tag>>
        /\ clicked' = <<"tag", tag>>
    /\ UNCHANGED <<projects, search>>
    /\ UNCHANGED <<sliderVars, pipelineVars>>

FilterNext ==
    \/ setSearch
    \/ clickAll
    \/ clickTag

\* Project lists for the tag list and the tag buttons, which read only
\* project.data.tags: more tags per project ("A" < "a" < "g" in code units,
\* a tag listed twice), no title or description text.
TagListsWide ==
    {<<>>, << <<>> >>, << <<"g">>, <<>> >>, << <<"a">>, <<"A">> >>,
     << <<"g">>, <<"g">> >>, << <<"a">> >>}

TaggedProject ==
    [title : {<<>>}, description : {<<>>}, tags : TagListsWide]

TagInit ==
    /\ projects \in SeqsUpTo(TaggedProject, MaxProjects)
    /\ search = <<>>
    /\ selectedTag = null
    /\ clicked = null

----------------------------------------------------------------------------
(* ProjectFilter: properties *)

\* Two characters are the same letter, whatever their case.
SameLetter(c, d) == c = d \/ {c, d} = {"A", "a"}

\* text contains q as a case-insensitive substring.
ContainsIgnoringCase(text, q) ==
    \E k \in 0..(Len(text) - Len(q)) :
        \A j \in 1..Len(q) : SameLetter(text[k + j], q[j])

TextMatch(p) ==
    \/ ContainsIgnoringCase(p.title, search)
    \/ ContainsIgnoringCase(p.description, search)

HasSelectedTag(p) == selectedTag # null => selectedTag[1] \in Range(p.tags)

TagUnion == UNION {Range(p.tags) : p \in Range(projects)}

\* C8: the filter result is exactly the sub-sequence of P, in order, of the
\* projects whose title or description contains q case-insensitively and
\* whose tags contain the selected tag when one is set; all of P for q empty
\* and no tag.
C8_FilterExact ==
    LET wanted(p) == TextMatch(p) /\ HasSelectedTag(p) IN
    /\ filteredProjects = SelectSeq(projects, wanted)
    /\ (search = <<>> /\ selectedTag = null) => filteredProjects = projects

\* C8, apart from the empty-string tag of C9: the same statement whenever the
\* selected tag is not "".
C8_ExactUnlessEmptyTag ==
    LET wanted(p) == TextMatch(p) /\ HasSelectedTag(p) IN
    selectedTag # << <<>> >> => filteredProjects = SelectSeq(projects, wanted)

\* C9: with empty search text and selectedTag = t, t any tag of P's tag
\* union, the result is exactly the projects of P whose tags contain t.
C9_TagFilterExact ==
    (search = <<>> /\ selectedTag # null /\ selectedTag[1] \in TagUnion) =>
        LET tagged(p) == selectedTag[1] \in Range(p.tags)
        IN filteredProjects = SelectSeq(projects, tagged)

\* C13: the derived tag list is sorted and duplicate-free, and its elements
\* are exactly the tags of the projects: each once, no other string.
C13_TagListSortedUnion ==
    /\ \A i, j \in 1..Len(allTags) :
        i < j => StrLess(allTags[i], allTags[j])
    /\ Range(allTags) = TagUnion
    /\ Len(allTags) = Cardinality(TagUnion)
    /\ \A p \in Range(projects) : \A k \in 1..Len(p.tags) :
        Cardinality({i \in 1..Len(allTags) : allTags[i] = p.tags[k]}) = 1

\* C13 case: the first project lists "g" before "", the second "a" before
\* "A"; the tag list is "", "A", "a", "g".
C13_Witness ==
    /\ Len(projects) = 2
    /\ projects[1].tags = << <<"g">>, <<>> >>
    /\ projects[2].tags = << <<"a">>, <<"A">> >>
    /\ allTags = << <<>>, <<"A">>, <<"a">>, <<"g">> >>

\* C13 case: a tag listed twice by one project and again by another appears
\* once.
C13_WitnessDuplicate ==
    /\ Len(projects) = 2
    /\ projects[1].tags = << <<"g">>, <<"g">> >>
    /\ projects[2].tags = << <<"g">>, <<>> >>
    /\ allTags = << <<>>, <<"g">> >>

\* C16: the selected tag is none or one element of the derived tag list; a
\* click on the selected tag's button clears the selection, a click on
\* another tag's button selects that tag, a click on "All" clears it; no
\* click changes the search text.
C16_TagSelection ==
    /\ [](selectedTag = null \/ selectedTag[1] \in Range(allTags))
    /\ [][/\ clicked' = <<"all">> =>
              (selectedTag' = null /\ search' = search)
          /\ (clicked' # null /\ clicked'[1] = "tag") =>
              LET t == clicked'[2] IN
              /\ t \in Range(allTags)
              /\ selectedTag' = IF selectedTag = <<t>> THEN null ELSE <<t>>
              /\ search' = search]_vars

\* C16 case: with a search text typed, a click on the button of the selected
\* tag "g" cleared the selection.
C16_Witness ==
    /\ clicked = <<"tag", <<"g">> >>
    /\ selectedTag = null
    /\ search # <<>>

\* C16 case: a click on the button of a tag selected it.
C16_WitnessSelect ==
    /\ clicked = <<"tag", <<>> >>
    /\ selectedTag = << <<>> >>

----------------------------------------------------------------------------
(* Bounds of the image pipeline inputs *)

MaxNameLen == 3
MaxFiles == 2

----------------------------------------------------------------------------
(* scripts/generate-og.mjs *)

NameChars == {"a", "."}

\* Directory entry names: "." and ".." are never entries.
Names == SeqsUpTo(NameChars, MaxNameLen) \ {<<>>, <<".">>, <<".", ".">>}

Entry == [name : Names, isFile : BOOLEAN]

Listings ==
    {l \in SeqsUpTo(Entry, MaxFiles) :
        \A i, j \in 1..Len(l) : i # j => l[i].name # l[j].name}

\* path.parse(inputFile).name: the base name up to its last ".", unless that
\* "." is the first character or there is none.
LastDot(base) ==
    LET dots == {i \in 1..Len(base) : base[i] = "."}
    IN IF dots = {} THEN 0 ELSE CHOOSE i \in dots : \A j \in dots : j <= i

parseName(base) ==
    IF LastDot(base) <= 1 THEN base ELSE SubSeq(base, 1, LastDot(base) - 1)

\* Mutant of outNameFromInput: the extension is kept.
outNameKeepExt(inputFile) == inputFile \o <<".", "w", "e", "b", "p">>
outNameFromInput(inputFile) == parseName(inputFile) \o <<".", "w", "e", "b", "p">>

\* Mutant of listFiles: every entry, directories included.
listFilesUnfiltered(entries) == [i \in 1..Len(entries) |-> entries[i].name]

\* listFiles: the regular files, in readdir order
listFiles(entries) ==
    LET isFile(e) == e.isFile
        files == SelectSeq(entries, isFile)
    IN [i \in 1..Len(files) |-> files[i].name]

PipelineInit ==
    /\ srcDir \in {null} \cup {<<l>> : l \in Listings}
    /\ outDir = {}
    /\ pc = "ensureDir"
    /\ inputs = <<>>
    /\ results = <<>>
    /\ cursor = 0
    /\ exitCode = null
    /\ failed = null

ensureDir ==
    /\ pc = "ensureDir"
    /\ pc' = "access"
    /\ UNCHANGED <<srcDir, outDir, inputs, results, cursor, exitCode>>
    /\ UNCHANGED failed
    /\ UNCHANGED <<sliderVars, filterVars>>

\* fs.access(OG_SOURCE_DIR) throws: log and return
sourceMissing ==
    /\ pc = "access"
    /\ srcDir = null
    /\ pc' = "done"
    /\ exitCode' = <<0>>
    /\ UNCHANGED <<srcDir, outDir, inputs, results, cursor>>
    /\ UNCHANGED failed
    /\ UNCHANGED <<sliderVars, filterVars>>

sourcePresent ==
    /\ pc = "access"
    /\ srcDir # null
    /\ pc' = "list"
    /\ UNCHANGED <<srcDir, outDir, inputs, results, cursor, exitCode>>
    /\ UNCHANGED failed
    /\ UNCHANGED <<sliderVars, filterVars>>

listInputs ==
    /\ pc = "list"
    /\ inputs' = listFiles(srcDir[1])
    /\ IF Len(inputs') = 0
       THEN /\ pc' = "done"
            /\ exitCode' = <<0>>
            /\ UNCHANGED <<results, cursor>>
       ELSE /\ pc' = "loop"
            /\ results' = <<>>
            /\ cursor' = 1
            /\ UNCHANGED exitCode
    /\ UNCHANGED <<srcDir, outDir>>
    /\ UNCHANGED failed
    /\ UNCHANGED <<sliderVars, filterVars>>

\* buildOne(input) resolves: the output file is written (or overwritten)
buildOne ==
    /\ pc = "loop"
    /\ cursor <= Len(inputs)
    /\ LET outFile == outNameFromInput(inputs[cursor]) IN
        /\ outDir' = outDir \cup {outFile}
        /\ results' = Append(results, outFile)
    /\ cursor' = cursor + 1
    /\ UNCHANGED <<srcDir, pc, inputs, exitCode>>
    /\ UNCHANGED failed
    /\ UNCHANGED <<sliderVars, filterVars>>

\* Mutant of buildFails: the rejection is caught inside the loop and the run
\* goes on with the next file.
buildFailsContinues ==
    /\ pc = "loop"
    /\ cursor <= Len(inputs)
    /\ failed' = <<cursor>>
    /\ cursor' = cursor + 1
    /\ UNCHANGED <<srcDir, outDir, pc, inputs, results, exitCode>>
    /\ UNCHANGED <<sliderVars, filterVars>>

\* buildOne(input) rejects: main().catch logs and exits 1; sharp may or may
\* not have left a partial output file
buildFails ==
    /\ pc = "loop"
    /\ cursor <= Len(inputs)
    /\ \E partial \in BOOLEAN :
        outDir' = IF partial
                  THEN outDir \cup {outNameFromInput(inputs[cursor])}
                  ELSE outDir
    /\ pc' = "done"
    /\ exitCode' = <<1>>
    /\ failed' = <<cursor>>
    /\ UNCHANGED <<srcDir, inputs, results, cursor>>
    /\ UNCHANGED <<sliderVars, filterVars>>

\* the loop ends: log the count, main resolves
finish ==
    /\ pc = "loop"
    /\ cursor > Len(inputs)
    /\ pc' = "done"
    /\ exitCode' = <<0>>
    /\ UNCHANGED <<srcDir, outDir, inputs, results, cursor>>
    /\ UNCHANGED failed
    /\ UNCHANGED <<sliderVars, filterVars>>

PipelineNext ==
    \/ ensureDir
    \/ sourceMissing
    \/ sourcePresent
    \/ listInputs
    \/ buildOne
    \/ buildFails
    \/ finish

----------------------------------------------------------------------------
(* generate-og.mjs: properties *)

SourceFiles == IF srcDir = null THEN {} ELSE Range(listFiles(srcDir[1]))

WebpName(f) == parseName(f) \o <<".", "w", "e", "b", "p">>

\* C10: a successful run leaves one output file per regular source file,
\* each named by the source name with its extension stripped and ".webp"
\* appended, and exits 0.
C10_OneOutputPerSource ==
    (pc = "done" /\ exitCode = <<0>> /\ SourceFiles # {}) =>
        /\ outDir = {WebpName(f) : f \in SourceFiles}
        /\ Cardinality(outDir) = Cardinality(SourceFiles)

\* The names of the regular files of the source directory, in listing order.
RegularFiles ==
    IF srcDir = null THEN <<>>
    ELSE LET regular(e) == e.isFile
             files == SelectSeq(srcDir[1], regular)
         IN [i \in 1..Len(files) |-> files[i].name]

\* C11: when encoding or writing one source file fails the run ends with exit
\* status 1; the files before it were processed one at a time in listing
\* order and their outputs stay in place, and no later file was started.
C11_FailureAbortsRun ==
    failed # null =>
        LET k == failed[1] IN
        /\ pc = "done"
        /\ exitCode = <<1>>
        /\ inputs = RegularFiles
        /\ k \in 1..Len(inputs)
        /\ cursor = k
        /\ results = [i \in 1..(k - 1) |-> WebpName(inputs[i])]
        /\ {WebpName(inputs[i]) : i \in 1..(k - 1)} \subseteq outDir
        /\ outDir \subseteq {WebpName(inputs[i]) : i \in 1..k}

\* C11 case: the second of two files failed; the first file's output is there.
C11_Witness ==
    /\ failed = <<2>>
    /\ exitCode = <<1>>
    /\ Len(inputs) = 2
    /\ outDir = {WebpName(inputs[1])}
    /\ WebpName(inputs[1]) # WebpName(inputs[2])

\* C12: with the source directory missing, or holding no regular file, the
\* run processes no file, creates no output file and exits with status 0.
C12_NothingToDo ==
    (srcDir = null \/ RegularFiles = <<>>) =>
        /\ pc # "loop"
        /\ outDir = {}
        /\ results = <<>>
        /\ cursor = 0
        /\ failed = null
        /\ exitCode \in {null, <<0>>}
        /\ pc = "done" => exitCode = <<0>>

\* C12 case: the source directory holds entries, none a regular file, and the
\* run has ended.
C12_Witness ==
    /\ pc = "done"
    /\ srcDir # null
    /\ Len(srcDir[1]) >= 1
    /\ RegularFiles = <<>>
    /\ exitCode = <<0>>
    /\ outDir = {}

\* C12 case: the source directory is missing and the run has ended.
C12_WitnessMissing ==
    /\ pc = "done"
    /\ srcDir = null
    /\ exitCode = <<0>>

----------------------------------------------------------------------------
(* Specifications *)

\* The components at rest: the props and inputs the other specifications fix.
SliderRest ==
    /\ certificates = <<1>>
    /\ activeIndex = 0
    /\ touchStart = null
    /\ touchEnd = null
    /\ isDragging = FALSE
    /\ dragStartX = null
    /\ pressCard = null
    /\ pendingClick = null
    /\ lastEvent = Event("init", 0, null, null)

FilterRest ==
    /\ projects = <<>>
    /\ search = <<>>
    /\ selectedTag = null
    /\ clicked = null

PipelineRest ==
    /\ srcDir = null
    /\ outDir = {}
    /\ pc = "ensureDir"
    /\ inputs = <<>>
    /\ results = <<>>
    /\ cursor = 0
    /\ exitCode = null
    /\ failed = null

\* CertificatesSlider
SliderSpecInit == SliderInit /\ FilterRest /\ PipelineRest
Spec == SliderSpecInit /\ [][SliderNext]_vars

\* ProjectFilter
FilterSpecInit == SliderRest /\ FilterInit /\ PipelineRest
FilterSpec == FilterSpecInit /\ [][FilterNext]_vars

\* ProjectFilter: tag list and tag buttons
TagSpecInit == SliderRest /\ TagInit /\ PipelineRest
TagSpec == TagSpecInit /\ [][FilterNext]_vars

\* generate-og.mjs
PipelineSpecInit == SliderRest /\ FilterRest /\ PipelineInit
PipelineSpec == PipelineSpecInit /\ [][PipelineNext]_vars

====
